---- MODULE Spec2Model ----
(***************************************************************************)
(* drpcstream.Stream (drpc/drpcstream/stream.go): one stream, its monitor   *)
(* goroutine, caller goroutines invoking the exported operations, the       *)
(* buffered writer the stream writes to and the demultiplexer that feeds    *)
(* the receive queue.                                                       *)
(*                                                                         *)
(* Granularity.  termSig, sendSig and the writer are touched only under     *)
(* sendMu; sig and messageID are also touched outside it.  A critical       *)
(* section is therefore two steps: Lock with the poll (and nextPid) that    *)
(* follows it, and then the writer calls with the deferred Set calls and    *)
(* Unlock.  A critical section that returns before any writer call is one   *)
(* step.  Entering an operation is joined with its first step unless that   *)
(* step waits for sendMu behind state the call has already changed.         *)
(***************************************************************************)
EXTENDS Integers, Sequences, FiniteSets, TLC

\* ------------------------------------------------------------------ bounds
MaxCalls == 2   \* calls the caller goroutines make in total
MaxPkts  == 2   \* packets drpcwire.Split cuts one payload into, at most
MaxRecv  == 2   \* packets the demultiplexer delivers in total

\* --------------------------------------------------------------- constants
QueueCap == 100 \* make(chan *drpcwire.Packet, 100)

Callers == {"c1", "c2"}
Mon     == "mon"
Procs   == Callers \cup {Mon}
None    == "none"

\* Signal contents and error values
Unset         == "unset"
Nil           == "nil"
Canceled      == "context.Canceled"
ErrClosed     == "stream closed"
ErrTerminated == "stream terminated"
ErrSendClosed == "send after CloseSend"
ErrEOF        == "io.EOF"
ErrWrite      == "write failed"
ErrFlush      == "flush failed"
ErrMarshal    == "marshal failed"
ErrUnmarshal  == "unmarshal failed"
ErrUser       == "user error"
ErrRemote     == "remote error"

RecvOps == {"RawRecv", "MsgRecv"}

VARIABLES
  messageID,  \* Stream.messageID
  sig,        \* Stream.sig      (general error)
  sendSig,    \* Stream.sendSig  (send half closed)
  termSig,    \* Stream.termSig  (terminated)
  sendMu,     \* Stream.sendMu: the holder, or None
  ctxDone,    \* Stream.ctx is cancelled
  queue,      \* Stream.queue: buffered packets
  qclosed,    \* Stream.queue has been closed by the demultiplexer
  log,        \* every buf.Write / buf.Flush call, in call order
  st,         \* per goroutine: position and locals of the call in progress
  hist        \* history: counters and facts about finished calls

vars == <<messageID, sig, sendSig, termSig, sendMu, ctxDone, queue, qclosed, log, st, hist>>

\* ---------------------------------------------------------------- Signal
\* drpcutil.Signal.Set: records err only if nothing is recorded yet.
SignalSet(cur, err) == IF cur = Unset THEN err ELSE cur

\* drpcutil.Signal.Get: (value, wasSet)
SignalGet(cur) == <<IF cur = Unset THEN Nil ELSE cur, cur # Unset>>

\* ------------------------------------------------------------- pollSend
\* mutant: the send-closed signal is looked at first
pollSend_SendFirst(sg, tm, sn) ==
  IF SignalGet(sn)[2] THEN <<SignalGet(sn)[1], TRUE>>
  ELSE IF SignalGet(sg)[2] THEN <<SignalGet(sg)[1], FALSE>>
  ELSE IF SignalGet(tm)[2] THEN <<SignalGet(tm)[1], FALSE>>
  ELSE <<Nil, FALSE>>

\* mutant: the terminated signal is not looked at
pollSend_NoTerm(sg, tm, sn) ==
  IF SignalGet(sg)[2] THEN <<SignalGet(sg)[1], FALSE>>
  ELSE IF SignalGet(sn)[2] THEN <<SignalGet(sn)[1], TRUE>>
  ELSE <<Nil, FALSE>>

pollSend(sg, tm, sn) ==
  IF SignalGet(sg)[2] THEN <<SignalGet(sg)[1], FALSE>>
  ELSE IF SignalGet(tm)[2] THEN <<SignalGet(tm)[1], FALSE>>
  ELSE IF SignalGet(sn)[2] THEN <<SignalGet(sn)[1], TRUE>>
  ELSE <<Nil, FALSE>>

\* mutant: RawError / RawCancel emit their frame without looking at termSig
NotTerminated_Always(tm) == TRUE

\* the guard of RawError / RawCancel: `if _, ok := s.termSig.Get(); !ok`
NotTerminated(tm) == ~SignalGet(tm)[2]

\* mutant: Close never returns early
CloseSkips_Never(pl) == FALSE

\* the early return of Close: `err != nil && !sendClosed`
CloseSkips(pl) == pl[1] # Nil /\ ~pl[2]

\* mutant: CloseSend does not tell "already closed" from an error
CloseSendSkips_NoClosed(pl) ==
  IF pl[1] # Nil THEN <<TRUE, pl[1]>> ELSE <<FALSE, Nil>>

\* the early returns of CloseSend: <<returns early, value returned>>
CloseSendSkips(pl) ==
  IF pl[2] THEN <<TRUE, Nil>>
  ELSE IF pl[1] # Nil THEN <<TRUE, pl[1]>>
  ELSE <<FALSE, Nil>>

\* ------------------------------------------------------- goroutine state
Idle ==
  [pc |-> "idle", op |-> "-", pid |-> 0, kind |-> "-", left |-> 0, err |-> Nil,
   ret |-> "-", wrote |-> 0, denied |-> FALSE, arg |-> "-", pkt |-> 0,
   seen |-> {}, aftMon |-> FALSE, healthy |-> FALSE, skipped |-> FALSE, blocked |-> FALSE]

MonDone == st[Mon].pc = "mon_done"

\* the locals of a call entered now; seen, aftMon and healthy record what held
\* when the call was made: the CloseSend / Close calls that had returned, the
\* monitor having finished, no general error and not terminated
Call(p, op, pc) ==
  IF p = Mon THEN [Idle EXCEPT !.pc = pc, !.op = op]
  ELSE [Idle EXCEPT !.pc = pc, !.op = op, !.seen = hist.closeRet, !.aftMon = MonDone,
                    !.healthy = (sig = Unset /\ termSig = Unset)]

\* the locals a returned call leaves behind
Returned(r, v) == [r EXCEPT !.pc = "ret", !.ret = v, !.left = 0, !.err = Nil]

\* mutant: RawRecv's select has no case for the general-error signal
WakeOnSig_MonOnly(f, old, new) ==
  [q \in Procs |->
     IF old = Unset /\ new # Unset /\ f[q].pc = "mon_parked"
     THEN [f[q] EXCEPT !.pc = "mon_sig"] ELSE f[q]]

\* Goroutines parked in a select are resumed by the first event that makes one
\* of their cases ready: closing sig's channel resumes every goroutine parked
\* on it with that case chosen.
WakeOnSig(f, old, new) ==
  [q \in Procs |->
     IF old = Unset /\ new # Unset
     THEN IF f[q].pc = "recv_parked" THEN [f[q] EXCEPT !.pc = "recv_sig"]
          ELSE IF f[q].pc = "mon_parked" THEN [f[q] EXCEPT !.pc = "mon_sig"]
          ELSE f[q]
     ELSE f[q]]

Init ==
  /\ messageID = 0
  /\ sig = Unset /\ sendSig = Unset /\ termSig = Unset
  /\ sendMu = None
  /\ ctxDone = FALSE
  /\ queue = <<>> /\ qclosed = FALSE
  /\ log = <<>>
  /\ st = [p \in Procs |-> IF p = Mon THEN [Idle EXCEPT !.pc = "mon_select", !.op = "monitor"] ELSE Idle]
  /\ hist = [calls |-> 0, recvd |-> 0, sendOk |-> {}, closeRet |-> {},
             cancelClean |-> FALSE, sigBy |-> None, sigLive |-> FALSE, termBy |-> None]

\* a caller goroutine is free to make a call ...
CanCall(c) ==
  /\ c \in Callers
  /\ st[c].pc \in {"idle", "ret"}
  /\ hist.calls < MaxCalls

\* ... to make a send-path call; the callers being interchangeable, a run that
\* begins with a send-path call begins with c1's
CanSend(c) == CanCall(c) /\ (c = "c1" \/ hist.calls > 0)

Called == [hist EXCEPT !.calls = @ + 1]

Put(p, r) == [st EXCEPT ![p] = r]

\* history: who latched sig first, and whether the stream was not yet
\* terminated then
SigBy(h, p, old, new) ==
  IF old = Unset /\ new # Unset THEN [h EXCEPT !.sigBy = p, !.sigLive = (termSig = Unset)] ELSE h

\* what buf.Write / buf.Flush is called with
WriteEntry(r, p) == [k |-> r.kind, id |-> r.pid, by |-> p, op |-> r.op, data |-> r.arg]
FlushEntry(r, p) == [k |-> "Flush", id |-> 0, by |-> p, op |-> r.op, data |-> "-"]

\* Stream.nextPid: atomic.AddUint64(&s.messageID, 1)
nextPid(m) == m + 1

\* --------------------------------------------------------------- RawSend
\* entry of RawSend: s.nextPid() is evaluated before Split runs, outside sendMu;
\* n is the number of packets Split cuts the payload into.
BeginSend(c, op, n) ==
  /\ messageID' = nextPid(messageID)
  /\ st' = Put(c, [Call(c, op, "send_lock") EXCEPT !.pid = nextPid(messageID), !.kind = "Message", !.left = n])
  /\ hist' = Called
  /\ UNCHANGED <<sig, sendSig, termSig, sendMu, ctxDone, queue, qclosed, log>>

RawSend(c, n) == CanSend(c) /\ BeginSend(c, "RawSend", n)

\* MsgSend: proto.Marshal may fail (ok = FALSE), then RawSend, then RawFlush
MsgSend(c, n, ok) ==
  /\ CanSend(c)
  /\ IF ok THEN BeginSend(c, "MsgSend", n)
     ELSE /\ st' = Put(c, Returned(Call(c, "MsgSend", "ret"), ErrMarshal))
          /\ hist' = Called
          /\ UNCHANGED <<messageID, sig, sendSig, termSig, sendMu, ctxDone, queue, qclosed, log>>

\* mutant: the Split callback does not wait for sendMu
SendLock_NoMutex(c) ==
  /\ st[c].pc = "send_lock"
  /\ LET pl == pollSend(sig, termSig, sendSig) IN
     IF pl[1] # Nil
     THEN /\ st' = Put(c, [st[c] EXCEPT !.pc = "send_fail", !.err = pl[1], !.denied = TRUE])
          /\ UNCHANGED sendMu
     ELSE /\ st' = Put(c, [st[c] EXCEPT !.pc = "send_write"])
          /\ sendMu' = c
  /\ UNCHANGED <<messageID, sig, sendSig, termSig, ctxDone, queue, qclosed, log, hist>>

\* the Split callback, first half: Lock, pollSend; a denial unlocks and makes
\* Split return the error
SendLock(c) ==
  /\ st[c].pc = "send_lock" /\ sendMu = None
  /\ LET pl == pollSend(sig, termSig, sendSig) IN
     IF pl[1] # Nil
     THEN /\ st' = Put(c, [st[c] EXCEPT !.pc = "send_fail", !.err = pl[1], !.denied = TRUE])
          /\ UNCHANGED sendMu
     ELSE /\ st' = Put(c, [st[c] EXCEPT !.pc = "send_write"])
          /\ sendMu' = c
  /\ UNCHANGED <<messageID, sig, sendSig, termSig, ctxDone, queue, qclosed, log, hist>>

\* the end of a successful RawSend: return nil, or go on to RawFlush in MsgSend
SendDone(r) ==
  IF r.op = "MsgSend" THEN [r EXCEPT !.pc = "flush_lock", !.left = 0]
  ELSE Returned(r, Nil)

\* the Split callback, second half: buf.Write(pkt), Unlock
SendWrite(c, ok) ==
  /\ st[c].pc = "send_write" /\ sendMu = c
  /\ log' = Append(log, WriteEntry(st[c], c))
  /\ sendMu' = None
  /\ LET r == [st[c] EXCEPT !.wrote = @ + 1] IN
     IF ~ok THEN /\ st' = Put(c, [r EXCEPT !.pc = "send_fail", !.err = ErrWrite])
                 /\ UNCHANGED hist
     ELSE IF st[c].left > 1
     THEN /\ st' = Put(c, [r EXCEPT !.pc = "send_lock", !.left = @ - 1])
          /\ UNCHANGED hist
     ELSE /\ st' = Put(c, SendDone(r))
          /\ hist' = [hist EXCEPT !.sendOk = @ \cup {st[c].pid}]
  /\ UNCHANGED <<messageID, sig, sendSig, termSig, ctxDone, queue, qclosed>>

\* `if err != nil { s.sig.Set(err); return err }`, outside sendMu
SendFail(c) ==
  /\ st[c].pc = "send_fail"
  /\ sig' = SignalSet(sig, st[c].err)
  /\ st' = WakeOnSig(Put(c, Returned(st[c], st[c].err)), sig, sig')
  /\ hist' = SigBy(hist, c, sig, sig')
  /\ UNCHANGED <<messageID, sendSig, termSig, sendMu, ctxDone, queue, qclosed, log>>

\* -------------------------------------------------------------- RawFlush
\* Lock, pollSend; a denial returns the error (and unlocks)
FlushPoll(c, r) ==
  /\ sendMu = None
  /\ LET pl == pollSend(sig, termSig, sendSig) IN
     IF pl[1] # Nil
     THEN /\ st' = Put(c, Returned([r EXCEPT !.denied = TRUE], pl[1]))
          /\ UNCHANGED sendMu
     ELSE /\ st' = Put(c, [r EXCEPT !.pc = "flush_do"])
          /\ sendMu' = c
  /\ UNCHANGED <<messageID, sig, sendSig, termSig, ctxDone, queue, qclosed, log>>

RawFlush(c) ==
  /\ CanSend(c)
  /\ FlushPoll(c, Call(c, "RawFlush", "flush_lock"))
  /\ hist' = Called

\* MsgSend's call of RawFlush
FlushLock(c) ==
  /\ st[c].pc = "flush_lock"
  /\ FlushPoll(c, st[c])
  /\ UNCHANGED hist

\* buf.Flush(); a failure is recorded in sig under the mutex; Unlock
FlushDo(c, ok) ==
  /\ st[c].pc = "flush_do" /\ sendMu = c
  /\ log' = Append(log, FlushEntry(st[c], c))
  /\ sendMu' = None
  /\ sig' = IF ok THEN sig ELSE SignalSet(sig, ErrFlush)
  /\ st' = WakeOnSig(Put(c, Returned(st[c], IF ok THEN Nil ELSE ErrFlush)), sig, sig')
  /\ hist' = SigBy(hist, c, sig, sig')
  /\ UNCHANGED <<messageID, sendSig, termSig, ctxDone, queue, qclosed>>

\* ------------------------------------------- operations under sendMu
\* mutant: RawCancel does not record context.Canceled
DeferSig_NoCancel(op, sg) ==
  IF op = "Close" THEN SignalSet(sg, ErrClosed) ELSE sg

\* mutant: Close and RawCancel assign the general error instead of latching it
DeferSig_Assign(op, sg) ==
  IF op = "RawCancel" THEN Canceled
  ELSE IF op = "Close" THEN ErrClosed
  ELSE sg

\* the deferred calls, last registered first, per operation
DeferSig(op, sg) ==
  IF op = "RawCancel" THEN SignalSet(sg, Canceled)
  ELSE IF op = "Close" THEN SignalSet(sg, ErrClosed)
  ELSE sg

\* mutant: Close does not latch the terminated signal
DeferTerm_NoClose(op, tm) ==
  IF op \in {"RawError", "RawCancel"} THEN SignalSet(tm, ErrTerminated) ELSE tm

DeferTerm(op, tm) ==
  IF op \in {"RawError", "RawCancel", "Close"} THEN SignalSet(tm, ErrTerminated) ELSE tm

DeferSend(op, sn) ==
  IF op \in {"CloseSend", "Close"} THEN SignalSet(sn, ErrSendClosed) ELSE sn

\* what the operation hands back: RawError and RawCancel return nothing and
\* drop wireSendFlush's error
Result(op, err) == IF op \in {"RawError", "RawCancel"} THEN Nil ELSE err

\* mutant: the operation returns without the deferred Unlock
Finish_KeepsLock(p, r, h) ==
  /\ sig' = DeferSig(r.op, sig)
  /\ termSig' = DeferTerm(r.op, termSig)
  /\ sendSig' = DeferSend(r.op, sendSig)
  /\ sendMu' = p
  /\ st' = WakeOnSig(Put(p, [Returned(r, Result(r.op, r.err)) EXCEPT !.pc = IF p = Mon THEN "mon_done" ELSE "ret"]),
                     sig, sig')
  /\ hist' = [SigBy(h, p, sig, sig') EXCEPT
       !.termBy = IF termSig = Unset /\ termSig' # Unset THEN p ELSE @,
       !.closeRet = IF r.op \in {"CloseSend", "Close"} THEN @ \cup {r.op} ELSE @]

\* the deferred Set calls and Unlock run and the operation returns; r holds the
\* locals of the call, h the history so far
Finish(p, r, h) ==
  /\ sig' = DeferSig(r.op, sig)
  /\ termSig' = DeferTerm(r.op, termSig)
  /\ sendSig' = DeferSend(r.op, sendSig)
  /\ sendMu' = None
  /\ st' = WakeOnSig(Put(p, [Returned(r, Result(r.op, r.err)) EXCEPT !.pc = IF p = Mon THEN "mon_done" ELSE "ret"]),
                     sig, sig')
  /\ hist' = [SigBy(h, p, sig, sig') EXCEPT
       !.termBy = IF termSig = Unset /\ termSig' # Unset THEN p ELSE @,
       !.closeRet = IF r.op \in {"CloseSend", "Close"} THEN @ \cup {r.op} ELSE @]

\* wireSendFlush entered: s.nextPid() under the mutex; Split will hand n
\* packets to buf.Write
EnterWsf(p, r, kind, n, h) ==
  /\ messageID' = nextPid(messageID)
  /\ sendMu' = p
  /\ st' = Put(p, [r EXCEPT !.pc = "wsf", !.pid = nextPid(messageID), !.kind = kind, !.left = n])
  /\ hist' = h
  /\ UNCHANGED <<sig, sendSig, termSig, ctxDone, queue, qclosed, log>>

\* the operation returns without calling wireSendFlush
SkipWsf(p, r, v, h) ==
  /\ Finish(p, [r EXCEPT !.err = v, !.skipped = TRUE], h)
  /\ UNCHANGED <<messageID, ctxDone, queue, qclosed, log>>

\* mutant: RawError latches termSig without emitting the Error frame
DoRawError_Quiet(p, r, h) ==
  /\ sendMu = None
  /\ SkipWsf(p, r, Nil, h)

\* RawError(err): Lock, termSig.Get; the error text goes out in one packet
DoRawError(p, r, h) ==
  /\ sendMu = None
  /\ IF NotTerminated(termSig) THEN EnterWsf(p, r, "Error", 1, h) ELSE SkipWsf(p, r, Nil, h)

\* RawCancel: Lock, termSig.Get; a Cancel frame has no payload
DoRawCancel(p, r, h) ==
  /\ sendMu = None
  /\ IF NotTerminated(termSig) THEN EnterWsf(p, r, "Cancel", 1, h) ELSE SkipWsf(p, r, Nil, h)

RawError(c) ==
  /\ CanSend(c)
  /\ DoRawError(c, [Call(c, "RawError", "lock") EXCEPT !.arg = ErrUser], Called)

RawCancel(c) ==
  /\ CanSend(c)
  /\ DoRawCancel(c, Call(c, "RawCancel", "lock"), Called)

\* CloseSend: Lock, pollSend
CloseSend(c) ==
  /\ CanSend(c) /\ sendMu = None
  /\ LET sk == CloseSendSkips(pollSend(sig, termSig, sendSig))
         r  == Call(c, "CloseSend", "lock") IN
     IF sk[1] THEN SkipWsf(c, r, sk[2], Called) ELSE EnterWsf(c, r, "CloseSend", 1, Called)

\* Close: Lock, pollSend
Close(c) ==
  /\ CanSend(c) /\ sendMu = None
  /\ LET r == Call(c, "Close", "lock") IN
     IF CloseSkips(pollSend(sig, termSig, sendSig)) THEN SkipWsf(c, r, Nil, Called)
     ELSE EnterWsf(c, r, "CloseSend", 1, Called)

\* the first k packets of the frame, as handed to buf.Write
Packets(r, p, k) == [i \in 1..k |-> WriteEntry(r, p)]

\* wireSendFlush, then the deferred calls.  f = 0: every call succeeds;
\* f in 1..n: the f-th buf.Write fails and Split returns its error;
\* f = n+1: the packets are written and buf.Flush fails
Wsf(p, f) ==
  /\ st[p].pc = "wsf" /\ sendMu = p
  /\ LET n == st[p].left
         k == IF f \in 1..n THEN f ELSE n
         e == IF f = 0 THEN Nil ELSE IF f \in 1..n THEN ErrWrite ELSE ErrFlush
     IN /\ f <= n + 1
        /\ log' = log \o Packets(st[p], p, k) \o (IF f \in 1..n THEN <<>> ELSE <<FlushEntry(st[p], p)>>)
        /\ Finish(p, [st[p] EXCEPT !.wrote = k, !.err = e], hist)
  /\ UNCHANGED <<messageID, ctxDone, queue, qclosed>>

\* --------------------------------------------------------------- monitor
\* the select of monitor: with a ready case one of the ready cases is chosen,
\* with none the goroutine parks
MonSelect(viaSig) ==
  /\ st[Mon].pc = "mon_select"
  /\ st' = Put(Mon, [st[Mon] EXCEPT !.pc =
        IF sig = Unset /\ ~ctxDone THEN "mon_parked"
        ELSE IF viaSig /\ sig # Unset THEN "mon_sig"
        ELSE IF ~viaSig /\ ctxDone THEN "mon_cancel"
        ELSE IF sig # Unset THEN "mon_sig" ELSE "mon_cancel"])
  /\ UNCHANGED <<messageID, sig, sendSig, termSig, sendMu, ctxDone, queue, qclosed, log, hist>>

\* case <-s.sig.Signal(): s.RawError(s.sig.Err())
MonRawError ==
  /\ st[Mon].pc = "mon_sig"
  /\ DoRawError(Mon, [Call(Mon, "RawError", "lock") EXCEPT !.arg = SignalGet(sig)[1]], hist)

\* case <-s.ctx.Done(): s.RawCancel()
MonRawCancel ==
  /\ st[Mon].pc = "mon_cancel"
  /\ DoRawCancel(Mon, Call(Mon, "RawCancel", "lock"), hist)

\* ------------------------------------------------------- RawRecv / MsgRecv
\* mutant: RawRecv goes to the select without looking at the signal first
BeginRecv_NoGet(c, op) ==
  /\ st' = Put(c, Call(c, op, "recv_select"))
  /\ hist' = Called
  /\ UNCHANGED <<messageID, sig, sendSig, termSig, sendMu, ctxDone, queue, qclosed, log>>

\* `if err, ok := s.sig.Get(); ok { return nil, err }`, else on to the select
BeginRecv(c, op) ==
  /\ st' = Put(c, IF SignalGet(sig)[2] THEN Returned(Call(c, op, "recv_get"), SignalGet(sig)[1])
                  ELSE Call(c, op, "recv_select"))
  /\ hist' = Called
  /\ UNCHANGED <<messageID, sig, sendSig, termSig, sendMu, ctxDone, queue, qclosed, log>>

RawRecv(c) == CanCall(c) /\ BeginRecv(c, "RawRecv")

\* MsgRecv: RawRecv, then proto.Unmarshal(p.Data, msg)
MsgRecv(c) == CanCall(c) /\ BeginRecv(c, "MsgRecv")

\* the cases of RawRecv's select that can proceed
RecvReady(sg, q, closed) ==
  (IF sg # Unset THEN {"sig"} ELSE {}) \cup
  (IF q # <<>> THEN {"pkt"} ELSE IF closed THEN {"eof"} ELSE {})

\* the select of RawRecv: one of the ready cases is chosen; with none the
\* goroutine parks
RecvSelect(c, case) ==
  /\ st[c].pc = "recv_select"
  /\ LET ready == RecvReady(sig, queue, qclosed) IN
     IF ready = {}
     THEN /\ case = "park"
          /\ st' = Put(c, [st[c] EXCEPT !.pc = "recv_parked", !.blocked = TRUE])
          /\ UNCHANGED queue
     ELSE /\ case \in ready
          /\ IF case = "pkt"
             THEN /\ st' = Put(c, [st[c] EXCEPT !.pc = "recv_got", !.pkt = Head(queue)])
                  /\ queue' = Tail(queue)
             ELSE /\ st' = Put(c, [st[c] EXCEPT !.pc = IF case = "sig" THEN "recv_sig" ELSE "recv_eof"])
                  /\ UNCHANGED queue
  /\ UNCHANGED <<messageID, sig, sendSig, termSig, sendMu, ctxDone, qclosed, log, hist>>

\* case <-s.sig.Signal(): return nil, s.sig.Err()
RecvSig(c) ==
  /\ st[c].pc = "recv_sig"
  /\ st' = Put(c, Returned(st[c], SignalGet(sig)[1]))
  /\ UNCHANGED <<messageID, sig, sendSig, termSig, sendMu, ctxDone, queue, qclosed, log, hist>>

\* case p, ok := <-s.queue with !ok: return nil, io.EOF
RecvEOF(c) ==
  /\ st[c].pc = "recv_eof"
  /\ st' = Put(c, Returned(st[c], ErrEOF))
  /\ UNCHANGED <<messageID, sig, sendSig, termSig, sendMu, ctxDone, queue, qclosed, log, hist>>

\* case p, ok := <-s.queue with ok: return p, nil; MsgRecv unmarshals p.Data,
\* which may fail (ok = FALSE)
RecvGot(c, ok) ==
  /\ st[c].pc = "recv_got"
  /\ (st[c].op = "RawRecv" => ok)
  /\ st' = Put(c, Returned(st[c], IF ok THEN Nil ELSE ErrUnmarshal))
  /\ UNCHANGED <<messageID, sig, sendSig, termSig, sendMu, ctxDone, queue, qclosed, log, hist>>

\* ----------------------------------------------------------- environment
\* no call of the send path is between its entry and its return
SendPathIdle ==
  /\ sendMu = None
  /\ \A c \in Callers : st[c].pc \in {"idle", "ret"} \/ st[c].op \in RecvOps
  /\ st[Mon].pc \in {"mon_select", "mon_parked"}

\* Stream.Cancel (or the parent context ending): ctx.Done() is closed
Cancel ==
  /\ ~ctxDone
  /\ ctxDone' = TRUE
  /\ st' = [st EXCEPT ![Mon].pc = IF @ = "mon_parked" THEN "mon_cancel" ELSE @]
  /\ hist' = [hist EXCEPT !.cancelClean = sig = Unset /\ termSig = Unset /\ SendPathIdle]
  /\ UNCHANGED <<messageID, sig, sendSig, termSig, sendMu, queue, qclosed, log>>

\* the demultiplexer sends a packet on Queue(): a parked receiver takes it
\* directly, otherwise it is buffered
Enqueue ==
  /\ ~qclosed /\ hist.recvd < MaxRecv
  /\ hist' = [hist EXCEPT !.recvd = @ + 1]
  /\ \/ \E c \in Callers :
          /\ st[c].pc = "recv_parked"
          /\ st' = Put(c, [st[c] EXCEPT !.pc = "recv_got", !.pkt = hist.recvd + 1])
          /\ UNCHANGED queue
     \/ /\ \A c \in Callers : st[c].pc # "recv_parked"
        /\ Len(queue) < QueueCap
        /\ queue' = Append(queue, hist.recvd + 1)
        /\ UNCHANGED st
  /\ UNCHANGED <<messageID, sig, sendSig, termSig, sendMu, ctxDone, qclosed, log>>

\* the demultiplexer closes Queue(): parked receivers see the closed channel
CloseQueue ==
  /\ ~qclosed
  /\ qclosed' = TRUE
  /\ st' = [p \in Procs |-> IF st[p].pc = "recv_parked" THEN [st[p] EXCEPT !.pc = "recv_eof"] ELSE st[p]]
  /\ UNCHANGED <<messageID, sig, sendSig, termSig, sendMu, ctxDone, queue, log, hist>>

\* the demultiplexer records a peer's Error frame: Sig().Set(err)
RemoteError ==
  /\ sig = Unset
  /\ sig' = SignalSet(sig, ErrRemote)
  /\ st' = WakeOnSig(st, sig, sig')
  /\ hist' = SigBy(hist, "demux", sig, sig')
  /\ UNCHANGED <<messageID, sendSig, termSig, sendMu, ctxDone, queue, qclosed, log>>

\* ------------------------------------------------------------------ Next
\* the frame of a locked operation is written and flushed, or fails
WsfStep(p) == \E f \in 0..(MaxPkts + 1) : Wsf(p, f)

\* a step of a send-path call in progress
SendStep(p) ==
  \/ SendLock(p) \/ (\E ok \in BOOLEAN : SendWrite(p, ok)) \/ SendFail(p)
  \/ (\E ok \in BOOLEAN : FlushDo(p, ok))
  \/ WsfStep(p)

\* MsgSend goes on from RawSend to RawFlush
MsgStep(p) == FlushLock(p)

\* a step of a receive call in progress
RecvStep(p) ==
  \/ (\E case \in {"sig", "pkt", "eof", "park"} : RecvSelect(p, case))
  \/ RecvSig(p) \/ RecvEOF(p) \/ (\E ok \in BOOLEAN : RecvGot(p, ok))

MonStep == (\E v \in BOOLEAN : MonSelect(v)) \/ MonRawError \/ MonRawCancel

\* a caller calls one of the raw send-path operations
SendCall(c) ==
  \/ (\E n \in 1..MaxPkts : RawSend(c, n))
  \/ RawFlush(c) \/ RawError(c) \/ RawCancel(c) \/ CloseSend(c) \/ Close(c)

\* a caller calls a message-level or receive operation
MsgCall(c) ==
  \/ (\E n \in 1..MaxPkts, ok \in BOOLEAN : MsgSend(c, n, ok))
  \/ MsgRecv(c) \/ RawRecv(c)

\* every operation, any caller
Next ==
  \/ \E c \in Callers : SendCall(c) \/ MsgCall(c)
  \/ \E p \in Procs : SendStep(p) \/ MsgStep(p) \/ RecvStep(p)
  \/ MonStep
  \/ Cancel \/ Enqueue \/ CloseQueue \/ RemoteError

Spec == Init /\ [][Next]_vars

\* the send path alone: callers racing on the raw send-path operations, the
\* monitor, cancellation and a peer's error
SendNext ==
  \/ \E c \in Callers : SendCall(c)
  \/ \E p \in Procs : SendStep(p)
  \/ MonStep
  \/ Cancel \/ RemoteError

SendSpec == Init /\ [][SendNext]_vars

\* the message level: one goroutine receives (the queue has a single
\* consumer) while another sends messages and closes
RecvNext ==
  \/ (\E n \in 1..MaxPkts, ok \in BOOLEAN : MsgSend("c1", n, ok)) \/ Close("c1")
  \/ MsgRecv("c2") \/ RawRecv("c2")
  \/ \E p \in Procs : SendStep(p) \/ MsgStep(p) \/ RecvStep(p)
  \/ MonStep
  \/ Cancel \/ Enqueue \/ CloseQueue \/ RemoteError

RecvSpec == Init /\ [][RecvNext]_vars

\* waiting for a packet: one goroutine receives while another reports an
\* error or closes, the monitor watches, and the peer delivers, ends the
\* stream or reports an error
WaitNext ==
  \/ RawError("c1") \/ Close("c1")
  \/ MsgRecv("c2") \/ RawRecv("c2")
  \/ \E p \in Procs : WsfStep(p) \/ RecvStep(p)
  \/ MonStep
  \/ Cancel \/ Enqueue \/ CloseQueue \/ RemoteError

WaitSpec == Init /\ [][WaitNext]_vars

\* goroutines are scheduled fairly: one that can take a step eventually does
WaitFairSpec ==
  WaitSpec /\ (\A p \in Procs : WF_vars(WsfStep(p) \/ RecvStep(p))) /\ WF_vars(MonStep)

\* termination: callers send, flush and close, the context may be cancelled,
\* the monitor watches
TermNext ==
  \/ \E c \in Callers : (\E n \in 1..MaxPkts : RawSend(c, n)) \/ RawFlush(c) \/ Close(c)
  \/ \E p \in Procs : SendStep(p)
  \/ MonStep
  \/ Cancel

TermSpec == Init /\ [][TermNext]_vars

\* goroutines are scheduled fairly and the writer's calls return
TermFairSpec ==
  TermSpec /\ (\A p \in Procs : WF_vars(SendStep(p))) /\ WF_vars(MonStep)

\* the whole send path: callers send messages (RawSend, then RawFlush) and
\* close, the monitor calls RawError or RawCancel, the context may be cancelled
LiveNext ==
  \/ \E c \in Callers :
       (\E n \in 1..MaxPkts, ok \in BOOLEAN : MsgSend(c, n, ok)) \/ CloseSend(c) \/ Close(c)
  \/ \E p \in Procs : SendStep(p) \/ MsgStep(p)
  \/ MonStep
  \/ Cancel

LiveSpec == Init /\ [][LiveNext]_vars

\* goroutines are scheduled fairly and the writer's calls return
LiveFairSpec ==
  LiveSpec /\ (\A p \in Procs : WF_vars(SendStep(p) \/ MsgStep(p))) /\ WF_vars(MonStep)

\* ================================================================ claims
\* positions in the writer's log
Pos == 1..Len(log)

\* C1: the message IDs of RawSend calls that returned success reach buf.Write
\* in strictly increasing order across calls, and no two RawSend calls use the
\* same message ID.
C1_PidsIncrease ==
  /\ \A i, j \in Pos :
       (/\ i < j
        /\ log[i].op = "RawSend" /\ log[j].op = "RawSend"
        /\ log[i].id \in hist.sendOk /\ log[j].id \in hist.sendOk
        /\ log[i].id # log[j].id)
       => log[i].id < log[j].id
  /\ \A c, d \in Callers :
       (c # d /\ st[c].op = "RawSend" /\ st[d].op = "RawSend") => st[c].pid # st[d].pid

\* C2: the packets of one RawSend call reach the writer contiguously: between
\* the first and the last packet of the call the writer sees no packet of
\* another operation and no flush.
C2_Contiguous ==
  \A i, j \in Pos :
    (i < j /\ log[i].op = "RawSend" /\ log[j].op = "RawSend" /\ log[i].id = log[j].id)
    => \A k \in i..j : log[k].op = "RawSend" /\ log[k].id = log[i].id

\* a terminal control frame: Error, Cancel, or the CloseSend frame of Close
Terminal(e) == e.k \in {"Error", "Cancel"} \/ (e.k = "CloseSend" /\ e.op = "Close")

TerminalFrames == Cardinality({i \in Pos : Terminal(log[i])})

\* C3: over the life of the stream at most one terminal control frame (Error,
\* Cancel, or the CloseSend frame written by Close) is handed to the writer.
C3_OneTerminalFrame == TerminalFrames <= 1

\* C3 witness: Close and the monitor have both run to their end and one
\* terminal frame was written.
C3_Witness ==
  /\ TerminalFrames = 1
  /\ MonDone
  /\ \E c \in Callers : st[c].pc = "ret" /\ st[c].op = "Close"

\* Cancel frames the monitor handed to the writer
MonCancelFrames == Cardinality({i \in Pos : log[i].k = "Cancel" /\ log[i].by = Mon})

\* a MsgSend / MsgRecv call that was made after the monitor finished and has
\* returned
LateMsgCall(c) ==
  st[c].pc = "ret" /\ st[c].op \in {"MsgSend", "MsgRecv"} /\ st[c].aftMon

\* C4 as stated: the context was cancelled on a stream with no error, not
\* terminated and with no send-path call in flight; then the monitor writes
\* exactly one Cancel frame and every MsgSend / MsgRecv made after the monitor
\* finished fails with context.Canceled.
C4_AsStated ==
  (hist.cancelClean /\ MonDone) =>
     /\ MonCancelFrames = 1
     /\ \A c \in Callers : LateMsgCall(c) => st[c].ret = Canceled

\* nobody but the monitor has latched the general-error or terminated signal
OnlyMonLatched == hist.sigBy \in {None, Mon} /\ hist.termBy \in {None, Mon}

\* C4 amended: ... and no other party latches the general-error or terminated
\* signal before the monitor does; then the monitor writes exactly one Cancel
\* frame and every MsgRecv, and every MsgSend of a message that serializes,
\* made after the monitor finished fails with context.Canceled.
C4_CancelQuiet ==
  (hist.cancelClean /\ MonDone /\ OnlyMonLatched) =>
     /\ MonCancelFrames = 1
     /\ \A c \in Callers :
          LateMsgCall(c) =>
            \/ st[c].ret = Canceled
            \/ st[c].op = "MsgSend" /\ st[c].ret = ErrMarshal

\* C4 witness: after such a cancellation a MsgSend and a MsgRecv made after
\* the monitor finished have both failed with context.Canceled.
C4_Witness ==
  /\ hist.cancelClean /\ MonDone /\ OnlyMonLatched
  /\ \E c \in Callers : LateMsgCall(c) /\ st[c].op = "MsgSend" /\ st[c].ret = Canceled
  /\ \E c \in Callers : LateMsgCall(c) /\ st[c].op = "MsgRecv" /\ st[c].ret = Canceled

RecvPcs == {"recv_select", "recv_parked", "recv_sig", "recv_got", "recv_eof"}

\* C5: a receive call blocked on the empty, open queue does not stay blocked
\* once the general-error signal is set: no call is parked while the signal is
\* set, a call that was blocked and is resumed by the signal returns the
\* signal's error, and once the signal is set every receive call in progress
\* returns.
C5_BlockedRecvReturns ==
  /\ [](\A c \in Callers : st[c].pc = "recv_parked" => sig = Unset)
  /\ \A c \in Callers :
       (st[c].blocked /\ st[c].pc = "recv_sig") ~> (st[c].pc = "ret" /\ st[c].ret = sig)
  /\ (sig # Unset) ~> (\A c \in Callers : st[c].pc \notin RecvPcs)

\* C5 witness: a call that was blocked has returned the error of the signal.
C5_Witness ==
  \E c \in Callers :
    st[c].blocked /\ st[c].pc = "ret" /\ sig # Unset /\ st[c].ret = sig

\* a returned CloseSend call made on a healthy stream (no general error, not
\* terminated); second: a CloseSend call had returned before
HealthyCloseSend(r, second) ==
  /\ r.pc = "ret" /\ r.op = "CloseSend" /\ r.healthy
  /\ ("CloseSend" \in r.seen) = second

\* C6: on a healthy stream the first CloseSend hands one CloseSend frame to
\* the writer; a second CloseSend returns nil, hands nothing to the writer and
\* leaves the stream's state as the first call left it.
C6_CloseSendIdempotent ==
  /\ [](\A c \in Callers :
          /\ HealthyCloseSend(st[c], FALSE) =>
               /\ ~st[c].skipped /\ st[c].wrote = 1
               /\ Cardinality({i \in Pos : log[i].k = "CloseSend" /\ log[i].id = st[c].pid}) = 1
          /\ HealthyCloseSend(st[c], TRUE) => st[c].ret = Nil /\ st[c].wrote = 0)
  /\ [][\A c \in Callers :
          (st'[c] # st[c] /\ HealthyCloseSend(st'[c], TRUE))
            => UNCHANGED <<messageID, sig, sendSig, termSig, sendMu, log, queue, qclosed, ctxDone>>]_vars

\* C6 witness: a second CloseSend on a healthy stream has returned nil.
C6_Witness ==
  \E c \in Callers : HealthyCloseSend(st[c], TRUE) /\ st[c].ret = Nil /\ Len(log) > 0

\* a returned RawSend call that was made after a Close call had returned
SendAfterClose(c) ==
  st[c].pc = "ret" /\ st[c].op = "RawSend" /\ "Close" \in st[c].seen

\* C7 as stated: after Close has returned, RawSend returns the error held by
\* the send-closed signal and makes no call to the writer.
C7_AsStated ==
  \A c \in Callers : SendAfterClose(c) => st[c].ret = sendSig /\ st[c].wrote = 0

\* C7 amended: after Close has returned, RawSend returns the error held by the
\* general-error signal ("stream closed" unless an error was recorded before
\* Close) and makes no call to the writer.
C7_SendAfterClose ==
  \A c \in Callers : SendAfterClose(c) => st[c].ret = sig /\ st[c].denied /\ st[c].wrote = 0

\* C7 witness: a RawSend made after Close has returned "stream closed".
C7_Witness ==
  \E c \in Callers : SendAfterClose(c) /\ st[c].ret = ErrClosed

\* C8: once CloseSend or Close has returned, a further CloseSend or Close
\* returns nil.
C8_CloseAgainNil ==
  \A c \in Callers :
    (st[c].pc = "ret" /\ st[c].op \in {"CloseSend", "Close"} /\ st[c].seen # {})
    => st[c].ret = Nil

\* C9: a RawSend call that returns a poll-policy error has handed none of its
\* packets to the writer.
C9_NoPartialSend ==
  \A c \in Callers :
    (st[c].pc = "ret" /\ st[c].op = "RawSend" /\ st[c].denied) => st[c].wrote = 0

ErrOps == {"RawSend", "RawFlush", "MsgSend", "CloseSend", "Close"}

\* C11: when RawSend, RawFlush, MsgSend, CloseSend or Close has returned an
\* error of the writer (a failed Write or Flush), the general-error signal is
\* set.
C11_WriterErrorLatched ==
  \A c \in Callers :
    (st[c].pc = "ret" /\ st[c].op \in ErrOps /\ st[c].ret \in {ErrWrite, ErrFlush} /\ ~st[c].denied)
    => sig # Unset

\* a goroutine that has locked sendMu, passed the poll and is about to call
\* the writer
GuardPcs == {"send_write", "flush_do", "wsf"}
InGuard(r) == r.pc \in GuardPcs

SendPathOps == {"RawSend", "MsgSend", "RawFlush", "CloseSend", "Close", "RawError", "RawCancel"}

\* at most one goroutine is between its poll and its writer call, and it holds
\* sendMu
Exclusive ==
  \A p, q \in Procs :
    InGuard(st[p]) => (sendMu = p /\ (InGuard(st[q]) => p = q))

\* the entries a step appends to the writer's log
Appended == SubSeq(log', Len(log) + 1, Len(log'))

\* C12 as stated: at most one operation is inside a writer call, and between
\* an operation's poll and its writer call no step of another send-path
\* operation touches the counter, the latches or the writer.
C12_AsStated ==
  [][/\ Exclusive
     /\ \A p, q \in Procs :
          (p # q /\ InGuard(st[p]) /\ st'[q] # st[q] /\ st'[q].op \in SendPathOps)
          => UNCHANGED <<messageID, sig, sendSig, termSig, log>>]_vars

\* another goroutine passes or fails a poll in this step
Polls(q) ==
  /\ st'[q] # st[q]
  /\ \/ InGuard(st'[q]) /\ ~InGuard(st[q])
     \/ /\ st'[q].denied \/ st'[q].skipped
        /\ \/ st[q].pc \in {"send_lock", "flush_lock", "mon_sig", "mon_cancel"}
           \/ hist'.calls # hist.calls

\* C12 amended: at most one operation is inside a writer call, every writer
\* call is made by the holder of the guard, and between an operation's poll
\* and its writer call no other operation polls, calls the writer or changes
\* the send-closed or terminated signal.
C12_WriterExclusive ==
  /\ [](Exclusive)
  /\ [][/\ log' # log =>
            /\ sendMu # None /\ InGuard(st[sendMu])
            /\ \A i \in 1..Len(Appended) : Appended[i].by = sendMu
       /\ \A p, q \in Procs :
            (p # q /\ InGuard(st[p])) =>
               /\ ~Polls(q)
               /\ (log' # log \/ sendSig' # sendSig \/ termSig' # termSig) => st'[p] # st[p]]_vars

\* C12 witness: one RawSend is about to write a packet while another RawSend
\* waits for the guard, packets of both being in the log already.
C12_Witness ==
  \E p, q \in Callers :
    /\ p # q /\ st[p].pc = "send_write" /\ st[q].pc = "send_lock"
    /\ st[p].wrote > 0 /\ st[q].wrote > 0

\* C13: once the terminated signal is set, no operation calls the writer's
\* Write or Flush again.
C13_SilentAfterTerm == [][termSig # Unset => log' = log]_vars

\* C13 witness: on a stream terminated by RawError, with no general error
\* recorded, a later send-path call was denied as terminated.
C13_Witness ==
  /\ termSig # Unset /\ Len(log) > 0
  /\ \E c \in Callers :
       st[c].pc = "ret" /\ st[c].op \in {"RawSend", "RawFlush"}
       /\ st[c].denied /\ st[c].ret = ErrTerminated

\* the general-error signal was set by a failing RawSend or RawFlush while the
\* stream was not terminated
SendFailed ==
  hist.sigBy \in Callers /\ hist.sigLive /\ sig \notin {Unset, ErrClosed, Canceled}

\* an Error frame carrying the recorded error was handed to the writer
ErrorFrames == {i \in Pos : log[i].k = "Error" /\ log[i].data = sig}

\* the monitor ends up terminated, having taken one of its two paths once
MonitorRuns ==
  /\ (sig # Unset \/ ctxDone) ~> (MonDone /\ termSig # Unset)
  /\ [](MonDone => st[Mon].op \in {"RawError", "RawCancel"})
  /\ [](Cardinality({i \in Pos : log[i].by = Mon /\ log[i].k # "Flush"}) <= 1)

\* C14 as stated: once the general-error signal is set or the context is
\* cancelled the monitor takes one of its two paths and the stream gets
\* terminated; and when a failing RawSend / RawFlush set the signal on a stream
\* not yet terminated, termSig is not latched without an Error frame carrying
\* that error having been handed to the writer.
C14_AsStated ==
  /\ MonitorRuns
  /\ []((SendFailed /\ termSig # Unset) => ErrorFrames # {})

\* C14 amended: ... and when a failing RawSend / RawFlush set the signal on a
\* stream not yet terminated and it is the monitor's RawError path that
\* latches termSig, the monitor has handed an Error frame carrying that error
\* to the writer by then.
C14_MonitorTerminates ==
  /\ MonitorRuns
  /\ []((SendFailed /\ hist.termBy = Mon /\ st[Mon].op = "RawError")
          => \E i \in ErrorFrames : log[i].by = Mon)

\* C14 witness: a Write of RawSend failed, the monitor sent the Error frame
\* with that error and terminated the stream.
C14_Witness ==
  /\ SendFailed /\ sig = ErrWrite /\ MonDone /\ hist.termBy = Mon
  /\ \E i \in ErrorFrames : log[i].by = Mon

\* C15: after CloseSend a RawSend or MsgSend that is denied with the
\* send-closed error leaves the general-error signal as it was (so that no
\* Error frame follows and RawRecv goes on returning packets).
C15_SendHalfOnly ==
  [][\A c \in Callers :
       (/\ st'[c] # st[c] /\ st'[c].pc = "ret"
        /\ st'[c].op \in {"RawSend", "MsgSend"}
        /\ st'[c].denied /\ st'[c].ret = ErrSendClosed)
       => sig' = sig]_vars

\* CloseSend control frames handed to the writer (a frame is one packet)
CloseSendFrames == Cardinality({i \in Pos : log[i].k = "CloseSend"})

\* C16 as stated: over any sequence of CloseSend and Close calls at most one
\* CloseSend control frame is handed to the writer.
C16_AsStated == CloseSendFrames <= 1

\* CloseSend control frames handed to the writer by calls of operation op
FramesOf(op) == Cardinality({i \in Pos : log[i].k = "CloseSend" /\ log[i].op = op})

\* C16 amended: over any sequence of CloseSend and Close calls the CloseSend
\* calls hand at most one CloseSend frame to the writer and the Close calls at
\* most one; Close after a successful CloseSend writes its own frame, the
\* second.
C16_OneFrameEach ==
  /\ FramesOf("CloseSend") <= 1 /\ FramesOf("Close") <= 1
  /\ CloseSendFrames = FramesOf("CloseSend") + FramesOf("Close")

\* C16 witness: CloseSend and then Close have both returned nil and each has
\* written a CloseSend frame.
C16_Witness ==
  /\ FramesOf("CloseSend") = 1 /\ FramesOf("Close") = 1
  /\ \E c \in Callers :
       st[c].pc = "ret" /\ st[c].op = "Close" /\ st[c].ret = Nil /\ "CloseSend" \in st[c].seen

\* C17: after Close has returned the send-closed, terminated and general-error
\* signals are all set; a Close made when the general-error or terminated
\* signal was already set returns nil and hands nothing to the writer.
C17_CloseLatchesAll ==
  \A c \in Callers :
    (st[c].pc = "ret" /\ st[c].op = "Close") =>
       /\ sig # Unset /\ termSig # Unset /\ sendSig # Unset
       /\ ~st[c].healthy => (st[c].ret = Nil /\ st[c].skipped /\ st[c].wrote = 0)

\* C17 witness: Close on a stream on which a Write had failed returned nil
\* without a frame, and all three signals are set.
C17_Witness ==
  /\ sig = ErrWrite /\ termSig # Unset /\ sendSig # Unset
  /\ \E c \in Callers :
       st[c].pc = "ret" /\ st[c].op = "Close" /\ ~st[c].healthy /\ st[c].skipped /\ st[c].ret = Nil

\* c makes a receive call in this step
RecvBegins(c) ==
  st'[c] # st[c] /\ hist'.calls = hist.calls + 1 /\ st'[c].op \in RecvOps

\* a receive call made when the general-error signal is set returns the
\* signal's error and leaves the queue alone
RecvOnError(c) ==
  (RecvBegins(c) /\ sig # Unset) =>
     (st'[c].pc = "ret" /\ st'[c].ret = sig /\ queue' = queue)

\* the k-th packet handed to a receiver is the k-th packet enqueued
RecvInOrder(c) ==
  (st'[c].pc = "recv_got" /\ st[c].pc # "recv_got") =>
     st'[c].pkt = hist.recvd - Len(queue) + 1

\* a call that saw the closed queue returns io.EOF
RecvEOFReturns(c) ==
  (st[c].pc = "recv_eof" /\ st'[c] # st[c]) => (st'[c].pc = "ret" /\ st'[c].ret = ErrEOF)

\* C18 as stated: a receive call made when the general-error signal is set
\* returns its error and removes no packet; a call whose select runs on the
\* closed queue with the signal unset returns io.EOF; otherwise packets are
\* returned in the order they were enqueued.
C18_AsStated ==
  [][\A c \in Callers :
       /\ RecvOnError(c)
       /\ (st[c].pc = "recv_select" /\ st'[c] # st[c] /\ qclosed /\ sig = Unset)
            => st'[c].pc = "recv_eof"
       /\ RecvEOFReturns(c)
       /\ RecvInOrder(c)]_vars

\* C18 amended: ... a call whose select runs on the closed and drained queue
\* with the signal unset returns io.EOF; packets still buffered when the queue
\* was closed are returned first, in the order they were enqueued.
C18_RecvOrder ==
  [][\A c \in Callers :
       /\ RecvOnError(c)
       /\ (st[c].pc = "recv_select" /\ st'[c] # st[c] /\ qclosed /\ sig = Unset)
            => IF queue = <<>> THEN st'[c].pc = "recv_eof"
               ELSE st'[c].pc = "recv_got" /\ st'[c].pkt = Head(queue) /\ queue' = Tail(queue)
       /\ (st[c].pc = "recv_parked" /\ qclosed') => st'[c].pc = "recv_eof"
       /\ RecvEOFReturns(c)
       /\ RecvInOrder(c)]_vars

\* C18 witness: the second packet was received after the queue had been
\* closed with it still buffered.
C18_Witness ==
  \E c \in Callers :
    st[c].pc = "ret" /\ st[c].op = "RawRecv" /\ st[c].pkt = 2 /\ st[c].ret = Nil /\ qclosed

\* a send-path call is between its entry and its return
InProgress(r) ==
  r.pc \in {"send_lock", "send_write", "send_fail", "flush_lock", "flush_do", "wsf"}

\* C19: the send path cannot deadlock: the guard is held only by an operation
\* inside its critical section, so it is free whenever no send-path operation
\* is in progress; a held guard is released; and every send-path call in
\* progress returns.
C19_NoDeadlock ==
  /\ [](sendMu # None => InGuard(st[sendMu]))
  /\ []((\A p \in Procs : ~InProgress(st[p])) => sendMu = None)
  /\ (sendMu # None) ~> (sendMu = None)
  /\ \A p \in Procs : InProgress(st[p]) ~> ~InProgress(st[p])

\* C19 witness: a MsgSend that has written its packets waits for the guard to
\* flush, the monitor waits for it too, and Close holds it.
C19_Witness ==
  \E c, d \in Callers :
    /\ c # d
    /\ st[c].pc = "flush_lock" /\ st[c].wrote = MaxPkts
    /\ st[d].pc = "wsf" /\ st[d].op = "Close" /\ sendMu = d
    /\ st[Mon].pc \in {"mon_sig", "mon_cancel"}

====
